---- MODULE Spec2Model ----
(***************************************************************************)
(* WeMow760 quote intake: the three variants of the quote handler           *)
(*   "quote"      src/api/quote.js        parallel fan-out, silent success  *)
(*   "echo"       src/unnamed/part_000    parallel fan-out, _debug summary  *)
(*   "sequential" src/api/debug.js:21     record store first, then SMS and  *)
(*                                        email in parallel, silent success *)
(* and the environment diagnostic endpoint (src/api/debug.js:1).            *)
(*                                                                          *)
(* One behaviour is one request to one deployed function.  A template       *)
(* literal is modelled as the sequence of its parts (literal chunks and     *)
(* interpolated values); the text it denotes is their concatenation.        *)
(***************************************************************************)
EXTENDS Integers, Sequences, FiniteSets, TLC

VARIABLES
    variant,          \* which deployed handler serves the request
    env,              \* process.env, restricted to the seven variables
    req,              \* the inbound request: method and body
    pc,               \* position of the handler
    promises,         \* state of the promise of each collaborator call
    fetches,          \* outbound HTTP requests issued, per collaborator
    replies,          \* the reply each collaborator call met, once it has
    airtableRecordId, \* local of the sequential handler
    res               \* the response object: headers set, responses sent

vars == <<variant, env, req, pc, promises, fetches, replies, airtableRecordId, res>>

----------------------------------------------------------------------------
(* Bounds *)

\* longest `records` array in a record-store reply
MaxRecords == 2
\* longest environment value
MaxEnvLen == 5

----------------------------------------------------------------------------
(* JavaScript values *)

Undefined == [type |-> "undefined"]
Null == [type |-> "null"]
Str(s) == [type |-> "string", val |-> s]

\* !v is false: the model's field values are undefined, null and strings
Truthy(v) == v.type = "string" /\ v.val # ""

\* ${v} inside a template literal
interpolate(v) == IF v.type = "string" THEN v.val ELSE v.type

\* a || b
or(a, b) == IF Truthy(a) THEN a ELSE b

FieldNames == {"name", "phone", "address", "service", "urgency", "details"}

Collaborators == {"airtable", "sms", "email"}

Variants == {"quote", "echo", "sequential"}

Methods == {"POST", "OPTIONS", "GET", "PUT"}

\* what a submission may carry in a field: nothing, an empty string, a text
SampleText ==
    [name |-> "Jane Doe", phone |-> "760-555-0100", address |-> "123 Oak St",
     service |-> "Mowing", urgency |-> "This week", details |-> "Gate code 4521"]

FieldValues(k) == {Undefined, Str(""), Str(SampleText[k])}

Forms == {f \in [FieldNames -> UNION {FieldValues(k) : k \in FieldNames}] :
             \A k \in FieldNames : f[k] \in FieldValues(k)}

\* req.body: absent, null, an unparsed string, or a parsed JSON object
Bodies == {Undefined, Null, Str("not json")}
          \cup {[type |-> "object", fields |-> f] : f \in Forms}

----------------------------------------------------------------------------
(* Environment *)

EnvVars ==
    <<"AIRTABLE_API_KEY", "AIRTABLE_BASE_ID", "AIRTABLE_TABLE_ID",
      "TEXTBELT_API_KEY", "NOTIFY_PHONE", "NOTIFY_EMAIL", "RESEND_API_KEY">>

EnvNames == {EnvVars[i] : i \in 1..Len(EnvVars)}

PreviewLen == 4

Alphabet == <<"k", "e", "y", "_", "9", "x", "q", "7">>

\* a value of n characters
Secret(n) == [i \in 1..n |-> Alphabet[((i - 1) % Len(Alphabet)) + 1]]

EnvLens == {0, PreviewLen - 1, PreviewLen, MaxEnvLen}

\* process.env[v]: undefined when unset, else a string (a sequence of characters)
EnvValues == {Undefined} \cup {[type |-> "string", val |-> Secret(n)] : n \in EnvLens}

\* a deployment with every variable configured
ConfiguredEnv == [v \in EnvNames |-> [type |-> "string", val |-> Secret(MaxEnvLen)]]

----------------------------------------------------------------------------
(* The response object *)

NewResponse == [headers |-> {}, sent |-> <<>>]

setHeader(r, k, v) == [r EXCEPT !.headers = @ \cup {<<k, v>>}]

\* res.status(code).json(body) and res.status(code).end()
respond(r, code, body) ==
    [r EXCEPT !.sent = Append(@, [status |-> code, body |-> body])]

EmptyBody == [type |-> "empty"]

json(obj) == [type |-> "json", value |-> obj]

setCorsHeaders(r) ==
    setHeader(setHeader(setHeader(r,
        "Access-Control-Allow-Origin", "*"),
        "Access-Control-Allow-Methods", "POST"),
        "Access-Control-Allow-Headers", "Content-Type")

MethodNotAllowed == json([error |-> "Method not allowed"])
RequiredFieldsError == json([error |-> "Name, phone, and address are required."])
ServerError == json([error |-> "Something went wrong. Please call us instead."])

----------------------------------------------------------------------------
(* Request parsing and validation *)

\* a handler that reads the fields of `req.body || {}`
destructureNeverThrows(body) == FALSE

\* const { name, ... } = req.body throws a TypeError on undefined and null
destructureThrows(body) == body.type \in {"undefined", "null"}

\* the six destructured locals; a property that is not there reads undefined
destructure(body) ==
    IF body.type = "object" THEN body.fields ELSE [k \in FieldNames |-> Undefined]

\* a validation that forgets the address
requiredMissingNoAddress(f) == ~Truthy(f.name) \/ ~Truthy(f.phone)

\* if (!name || !phone || !address)
requiredMissing(f) == ~Truthy(f.name) \/ ~Truthy(f.phone) \/ ~Truthy(f.address)

----------------------------------------------------------------------------
(* Promises *)

Idle == [status |-> "idle"]
Pending == [status |-> "pending"]
Fulfilled(v) == [status |-> "fulfilled", value |-> v]
Rejected(r) == [status |-> "rejected", reason |-> r]

Settled(p) == p.status \in {"fulfilled", "rejected"}

\* Promise.all(ps) in its place: the first rejection ends the wait
allOrFirstRejection(ps) ==
    \/ \A i \in 1..Len(ps) : ps[i].status = "fulfilled"
    \/ \E i \in 1..Len(ps) : ps[i].status = "rejected"

\* Promise.allSettled(ps) resolves once no promise of ps is pending
allSettled(ps) == \A i \in 1..Len(ps) : Settled(ps[i])

----------------------------------------------------------------------------
(* Replies of the three gateways *)

NetworkError == [net |-> "error"]
HttpReply(ok, body) == [net |-> "ok", ok |-> ok, json |-> body]

\* resp.json() rejects on a body that is not JSON
InvalidJson == [type |-> "invalid"]

RecordIds == <<"recA1", "recB2", "recC3", "recD4">>

\* one element of the `records` array: with an id, or without one
RecordWithId(i) == [id |-> Str(RecordIds[((i - 1) % Len(RecordIds)) + 1])]
RecordWithoutId == [id |-> Undefined]

RECURSIVE RecordArrays(_)
RecordArrays(n) ==
    IF n = 0 THEN {<<>>}
    ELSE {Append(a, r) : a \in RecordArrays(n - 1),
                         r \in {RecordWithId(n), RecordWithoutId}}

AirtableJson ==
    {InvalidJson, Null, [type |-> "object", records |-> Undefined]}
    \cup {[type |-> "object", records |-> [type |-> "array", items |-> a]] :
            a \in UNION {RecordArrays(n) : n \in 0..MaxRecords}}

AirtableReplies ==
    {NetworkError, HttpReply(FALSE, [type |-> "object", records |-> Undefined])}
    \cup {HttpReply(TRUE, j) : j \in AirtableJson}

SmsJson == {InvalidJson, Null, [type |-> "object", success |-> TRUE],
            [type |-> "object", success |-> FALSE]}

SmsReplies ==
    {NetworkError, HttpReply(FALSE, [type |-> "object", success |-> TRUE])}
    \cup {HttpReply(TRUE, j) : j \in SmsJson}

EmailReplies ==
    {NetworkError, HttpReply(FALSE, [type |-> "object", id |-> Undefined]),
     HttpReply(TRUE, InvalidJson),
     HttpReply(TRUE, [type |-> "object", id |-> Str("email-1")])}

----------------------------------------------------------------------------
(* createAirtableRecord *)

\* JSON.stringify of an object leaves out the properties that are undefined
JSONstringify(obj) == [k \in {k \in DOMAIN obj : obj[k] # Undefined} |-> obj[k]]

\* a literal that sends '' for an empty Service or Urgency, as it does for Details
createAirtableRecordFieldsPlaceholders(data) ==
    [Name |-> data.name, Phone |-> data.phone, Address |-> data.address,
     Service |-> or(data.service, Str("")),
     Urgency |-> or(data.urgency, Str("")),
     Details |-> or(data.details, Str("")),
     Status |-> Str("New")]

\* src/api/quote.js: one literal, Service and Urgency as `value || undefined`
createAirtableRecordFieldsQuote(data) ==
    [Name |-> data.name, Phone |-> data.phone, Address |-> data.address,
     Service |-> or(data.service, Undefined),
     Urgency |-> or(data.urgency, Undefined),
     Details |-> or(data.details, Str("")),
     Status |-> Str("New")]

\* src/unnamed/part_000 and, word for word, src/api/debug.js:81-89: Service and
\* Urgency are added only when truthy
createAirtableRecordFields(data) ==
    LET fields == [Name |-> data.name, Phone |-> data.phone,
                   Address |-> data.address,
                   Details |-> or(data.details, Str("")),
                   Status |-> Str("New")]
        withService == IF Truthy(data.service)
                       THEN ("Service" :> data.service) @@ fields ELSE fields
    IN  IF Truthy(data.urgency)
        THEN ("Urgency" :> data.urgency) @@ withService ELSE withService

\* the request createAirtableRecord fetches
createAirtableRecordRequest(v, data) ==
    [url |-> <<"https://api.airtable.com/v0/", env["AIRTABLE_BASE_ID"], "/",
               env["AIRTABLE_TABLE_ID"]>>,
     method |-> "POST",
     Authorization |-> <<"Bearer ", env["AIRTABLE_API_KEY"]>>,
     body |-> [records |-> <<[fields |->
                 JSONstringify(IF v = "quote"
                               THEN createAirtableRecordFieldsQuote(data)
                               ELSE createAirtableRecordFields(data))]>>]]

\* how the promise of createAirtableRecord settles on the gateway's reply
\* (the same lines in all three files)
createAirtableRecordResult(reply) ==
    IF reply.net = "error" THEN Rejected("fetch failed")
    ELSE IF ~reply.ok THEN Rejected("Airtable status")
    ELSE IF reply.json = InvalidJson THEN Rejected("SyntaxError")
    ELSE Fulfilled(reply.json)

----------------------------------------------------------------------------
(* sendSMS *)

\* [...].filter(Boolean): null and the empty string are dropped.  A line is a
\* sequence of parts, null is the line of no parts
NullLine == <<>>
lineTruthy(line) == \E i \in 1..Len(line) : line[i] # ""
filterBoolean(lines) == SelectSeq(lines, lineTruthy)

\* first line of the text: src/api/debug.js:111 says "Quote Request"
smsHeader(v) ==
    IF v = "sequential" THEN "New WeMow760 Quote Request" ELSE "New WeMow760 Quote"

\* the message: the array of lines, filtered; join('\n') keeps it line by line
sendSMSMessage(v, data) ==
    filterBoolean(<<
        <<smsHeader(v)>>,
        <<"">>,
        <<"Name: ", interpolate(data.name)>>,
        <<"Phone: ", interpolate(data.phone)>>,
        <<"Address: ", interpolate(data.address)>>,
        IF Truthy(data.service)
            THEN <<"Service: ", interpolate(data.service)>> ELSE NullLine,
        IF Truthy(data.urgency)
            THEN <<"Urgency: ", interpolate(data.urgency)>> ELSE NullLine,
        IF Truthy(data.details)
            THEN <<"Details: ", interpolate(data.details)>> ELSE NullLine >>)

sendSMSRequest(v, data) ==
    [url |-> <<"https://textbelt.com/text">>,
     method |-> "POST",
     body |-> [phone |-> env["NOTIFY_PHONE"],
               message |-> sendSMSMessage(v, data),
               key |-> env["TEXTBELT_API_KEY"]]]

\* an adapter that does not look at the success flag of the reply
sendSMSResultIgnoresFlag(reply) ==
    IF reply.net = "error" THEN Rejected("fetch failed")
    ELSE IF ~reply.ok THEN Rejected("Textbelt status")
    ELSE IF reply.json = InvalidJson THEN Rejected("SyntaxError")
    ELSE Fulfilled(reply.json)

\* how the promise of sendSMS settles: a reply that is ok but carries no true
\* success flag is thrown as an error (reading .success of null throws too)
sendSMSResult(reply) ==
    IF reply.net = "error" THEN Rejected("fetch failed")
    ELSE IF ~reply.ok THEN Rejected("Textbelt status")
    ELSE IF reply.json = InvalidJson THEN Rejected("SyntaxError")
    ELSE IF reply.json = Null THEN Rejected("TypeError")
    ELSE IF ~reply.json.success THEN Rejected("Textbelt failed")
    ELSE Fulfilled(reply.json)

----------------------------------------------------------------------------
(* sendEmail *)

\* a link that never names the record
airtableUrlTableOnly(recordId) ==
    <<"https://airtable.com/", env["AIRTABLE_BASE_ID"], "/",
      env["AIRTABLE_TABLE_ID"]>>

\* the link of the "View in Airtable" button (sequential handler only)
airtableUrl(recordId) ==
    IF Truthy(recordId)
    THEN <<"https://airtable.com/", env["AIRTABLE_BASE_ID"], "/",
           env["AIRTABLE_TABLE_ID"], "/", interpolate(recordId)>>
    ELSE <<"https://airtable.com/", env["AIRTABLE_BASE_ID"], "/",
           env["AIRTABLE_TABLE_ID"]>>

\* the table rows of the html body: one per field, the optional ones only
\* when truthy
emailRows(data) ==
    << <<"Name", interpolate(data.name)>>,
       <<"Phone", interpolate(data.phone)>>,
       <<"Address", interpolate(data.address)>> >>
    \o (IF Truthy(data.service)
        THEN << <<"Service", interpolate(data.service)>> >> ELSE <<>>)
    \o (IF Truthy(data.urgency)
        THEN << <<"Urgency", interpolate(data.urgency)>> >> ELSE <<>>)
    \o (IF Truthy(data.details)
        THEN << <<"Details", interpolate(data.details)>> >> ELSE <<>>)

emailSubject(v, data) ==
    <<IF v = "sequential" THEN "New Quote Request - " ELSE "New Quote - ",
      interpolate(data.name)>>
    \o (IF Truthy(data.service)
        THEN <<" (", interpolate(data.service), ")">> ELSE <<>>)

\* the request sendEmail fetches; only the sequential handler's html has a link
sendEmailRequest(v, data, recordId) ==
    [url |-> <<"https://api.resend.com/emails">>,
     method |-> "POST",
     Authorization |-> <<"Bearer ", env["RESEND_API_KEY"]>>,
     body |-> [from |-> "WeMow760 <notifications@wemow760.com>",
               to |-> <<env["NOTIFY_EMAIL"]>>,
               subject |-> emailSubject(v, data),
               html |-> [rows |-> emailRows(data),
                         link |-> IF v = "sequential"
                                  THEN airtableUrl(recordId) ELSE <<>>]]]

\* how the promise of sendEmail settles (the same lines in all three files)
sendEmailResult(reply) ==
    IF reply.net = "error" THEN Rejected("fetch failed")
    ELSE IF ~reply.ok THEN Rejected("Resend status")
    ELSE IF reply.json = InvalidJson THEN Rejected("SyntaxError")
    ELSE Fulfilled(reply.json)

----------------------------------------------------------------------------
(* The quote handlers *)

NoReply == [net |-> "none"]

\* const formData = { name, phone, address, service, urgency, details }
formData(f) == [k \in FieldNames |-> f[k]]

\* one entry of the _debug summary
summaryEntry(p) ==
    IF p.status = "fulfilled" THEN <<"OK">> ELSE <<"FAIL: ", p.reason>>

\* airtableResult.records?.[0]?.id || null; a null result throws into the
\* inner catch, which leaves airtableRecordId null
extractRecordId(result) ==
    IF result = Null THEN Null
    ELSE IF result.records = Undefined THEN Null
    ELSE IF Len(result.records.items) = 0 THEN Null
    ELSE or(result.records.items[1].id, Null)

\* src/api/quote.js:1-25, up to the await of Promise.allSettled
handler_quote ==
    /\ variant = "quote"
    /\ pc = "start"
    /\ IF req.method # "POST"
       THEN /\ res' = respond(res, 405, MethodNotAllowed)
            /\ pc' = "done"
            /\ UNCHANGED <<promises, fetches>>
       ELSE LET r == setCorsHeaders(res) IN
            IF destructureThrows(req.body)
            THEN /\ res' = respond(r, 500, ServerError)
                 /\ pc' = "done"
                 /\ UNCHANGED <<promises, fetches>>
            ELSE LET f == destructure(req.body) IN
                 IF requiredMissing(f)
                 THEN /\ res' = respond(r, 400, RequiredFieldsError)
                      /\ pc' = "done"
                      /\ UNCHANGED <<promises, fetches>>
                 ELSE /\ fetches' =
                           [airtable |-> Append(fetches.airtable,
                                createAirtableRecordRequest("quote", formData(f))),
                            sms |-> Append(fetches.sms,
                                sendSMSRequest("quote", formData(f))),
                            email |-> Append(fetches.email,
                                sendEmailRequest("quote", formData(f), Null))]
                      /\ promises' = [c \in Collaborators |-> Pending]
                      /\ res' = r
                      /\ pc' = "awaitAll"
    /\ UNCHANGED <<variant, env, req, replies, airtableRecordId>>

\* a resume that escalates a collaborator failure to the submitter
handler_quote_resume_escalates ==
    /\ variant = "quote"
    /\ pc = "awaitAll"
    /\ allSettled(<<promises.airtable, promises.sms, promises.email>>)
    /\ IF \E c \in Collaborators : promises[c].status = "rejected"
       THEN res' = respond(res, 500, ServerError)
       ELSE res' = respond(res, 200, json([success |-> TRUE]))
    /\ pc' = "done"
    /\ UNCHANGED <<variant, env, req, promises, fetches, replies, airtableRecordId>>

\* src/api/quote.js:27-50, after the await
handler_quote_resume ==
    /\ variant = "quote"
    /\ pc = "awaitAll"
    /\ allSettled(<<promises.airtable, promises.sms, promises.email>>)
    \* the rejected ones are logged; the answer does not depend on them
    /\ res' = respond(res, 200, json([success |-> TRUE]))
    /\ pc' = "done"
    /\ UNCHANGED <<variant, env, req, promises, fetches, replies, airtableRecordId>>

\* src/unnamed/part_000:1-35, up to the await of Promise.allSettled
handler_echo ==
    /\ variant = "echo"
    /\ pc = "start"
    /\ IF req.method = "OPTIONS"
       THEN /\ res' = respond(setCorsHeaders(res), 200, EmptyBody)
            /\ pc' = "done"
            /\ UNCHANGED <<promises, fetches>>
       ELSE IF req.method # "POST"
       THEN /\ res' = respond(res, 405, MethodNotAllowed)
            /\ pc' = "done"
            /\ UNCHANGED <<promises, fetches>>
       ELSE LET r == setCorsHeaders(res) IN
            IF destructureThrows(req.body)
            THEN /\ res' = respond(r, 500, ServerError)
                 /\ pc' = "done"
                 /\ UNCHANGED <<promises, fetches>>
            ELSE LET f == destructure(req.body) IN
                 IF requiredMissing(f)
                 THEN /\ res' = respond(r, 400, RequiredFieldsError)
                      /\ pc' = "done"
                      /\ UNCHANGED <<promises, fetches>>
                 ELSE /\ fetches' =
                           [airtable |-> Append(fetches.airtable,
                                createAirtableRecordRequest("echo", formData(f))),
                            sms |-> Append(fetches.sms,
                                sendSMSRequest("echo", formData(f))),
                            email |-> Append(fetches.email,
                                sendEmailRequest("echo", formData(f), Null))]
                      /\ promises' = [c \in Collaborators |-> Pending]
                      /\ res' = r
                      /\ pc' = "awaitAll"
    /\ UNCHANGED <<variant, env, req, replies, airtableRecordId>>

\* src/unnamed/part_000:37-47, after the await
handler_echo_resume ==
    /\ variant = "echo"
    /\ pc = "awaitAll"
    /\ allSettled(<<promises.airtable, promises.sms, promises.email>>)
    /\ LET summary == [airtable |-> summaryEntry(promises.airtable),
                       sms |-> summaryEntry(promises.sms),
                       email |-> summaryEntry(promises.email)]
       IN  res' = respond(res, 200, json([success |-> TRUE, _debug |-> summary]))
    /\ pc' = "done"
    /\ UNCHANGED <<variant, env, req, promises, fetches, replies, airtableRecordId>>

\* a validation branch without its `return`: the 400 is sent and the handler
\* carries on to the record-store call
handler_sequential_no_return ==
    /\ variant = "sequential"
    /\ pc = "start"
    /\ IF req.method = "OPTIONS"
       THEN /\ res' = respond(setCorsHeaders(res), 200, EmptyBody)
            /\ pc' = "done"
            /\ UNCHANGED <<promises, fetches>>
       ELSE IF req.method # "POST"
       THEN /\ res' = respond(res, 405, MethodNotAllowed)
            /\ pc' = "done"
            /\ UNCHANGED <<promises, fetches>>
       ELSE LET r == setCorsHeaders(res) IN
            IF destructureThrows(req.body)
            THEN /\ res' = respond(r, 500, ServerError)
                 /\ pc' = "done"
                 /\ UNCHANGED <<promises, fetches>>
            ELSE LET f == destructure(req.body) IN
                 /\ fetches' = [fetches EXCEPT !.airtable = Append(@,
                        createAirtableRecordRequest("sequential", formData(f)))]
                 /\ promises' = [promises EXCEPT !.airtable = Pending]
                 /\ res' = IF requiredMissing(f)
                           THEN respond(r, 400, RequiredFieldsError) ELSE r
                 /\ pc' = "awaitAirtable"
    /\ UNCHANGED <<variant, env, req, replies, airtableRecordId>>

\* src/api/debug.js:21-53, up to the await of createAirtableRecord
handler_sequential ==
    /\ variant = "sequential"
    /\ pc = "start"
    /\ IF req.method = "OPTIONS"
       THEN /\ res' = respond(setCorsHeaders(res), 200, EmptyBody)
            /\ pc' = "done"
            /\ UNCHANGED <<promises, fetches>>
       ELSE IF req.method # "POST"
       THEN /\ res' = respond(res, 405, MethodNotAllowed)
            /\ pc' = "done"
            /\ UNCHANGED <<promises, fetches>>
       ELSE LET r == setCorsHeaders(res) IN
            IF destructureThrows(req.body)
            THEN /\ res' = respond(r, 500, ServerError)
                 /\ pc' = "done"
                 /\ UNCHANGED <<promises, fetches>>
            ELSE LET f == destructure(req.body) IN
                 IF requiredMissing(f)
                 THEN /\ res' = respond(r, 400, RequiredFieldsError)
                      /\ pc' = "done"
                      /\ UNCHANGED <<promises, fetches>>
                 ELSE /\ fetches' = [fetches EXCEPT !.airtable = Append(@,
                                createAirtableRecordRequest("sequential", formData(f)))]
                      /\ promises' = [promises EXCEPT !.airtable = Pending]
                      /\ res' = r
                      /\ pc' = "awaitAirtable"
    /\ UNCHANGED <<variant, env, req, replies, airtableRecordId>>

\* a step without the inner try/catch: a record-store failure reaches the
\* outer catch, and SMS and email are never sent
handler_sequential_step2_abort ==
    /\ variant = "sequential"
    /\ pc = "awaitAirtable"
    /\ Settled(promises.airtable)
    /\ IF promises.airtable.status = "rejected"
       THEN /\ res' = respond(res, 500, ServerError)
            /\ pc' = "done"
            /\ UNCHANGED <<airtableRecordId, fetches, promises>>
       ELSE LET id == extractRecordId(promises.airtable.value)
                data == formData(destructure(req.body))
            IN  /\ airtableRecordId' = id
                /\ fetches' = [fetches EXCEPT
                       !.sms = Append(@, sendSMSRequest("sequential", data)),
                       !.email = Append(@, sendEmailRequest("sequential", data, id))]
                /\ promises' = [promises EXCEPT !.sms = Pending, !.email = Pending]
                /\ pc' = "awaitAll"
                /\ res' = res
    /\ UNCHANGED <<variant, env, req, replies>>

\* src/api/debug.js:53-63: the record-store call has settled (its failure is
\* caught and logged), then SMS and email are issued together
handler_sequential_step2 ==
    /\ variant = "sequential"
    /\ pc = "awaitAirtable"
    /\ Settled(promises.airtable)
    /\ LET id == IF promises.airtable.status = "fulfilled"
                 THEN extractRecordId(promises.airtable.value) ELSE Null
           data == formData(destructure(req.body))
       IN  /\ airtableRecordId' = id
           /\ fetches' = [fetches EXCEPT
                  !.sms = Append(@, sendSMSRequest("sequential", data)),
                  !.email = Append(@, sendEmailRequest("sequential", data, id))]
    /\ promises' = [promises EXCEPT !.sms = Pending, !.email = Pending]
    /\ pc' = "awaitAll"
    /\ UNCHANGED <<variant, env, req, replies, res>>

\* src/api/debug.js:65-69, after the await of Promise.allSettled
handler_sequential_resume ==
    /\ variant = "sequential"
    /\ pc = "awaitAll"
    /\ allSettled(<<promises.sms, promises.email>>)
    \* the rejected ones are logged; the answer does not depend on them
    /\ res' = respond(res, 200, json([success |-> TRUE]))
    /\ pc' = "done"
    /\ UNCHANGED <<variant, env, req, promises, fetches, replies, airtableRecordId>>

----------------------------------------------------------------------------
(* The collaborator calls settle *)

\* the gateway answers the pending record-store call, and the promise of
\* createAirtableRecord settles accordingly
createAirtableRecord_settles ==
    /\ pc \in {"awaitAirtable", "awaitAll"}
    /\ promises.airtable = Pending
    /\ \E reply \in AirtableReplies :
          /\ replies' = [replies EXCEPT !.airtable = reply]
          /\ promises' = [promises EXCEPT
                            !.airtable = createAirtableRecordResult(reply)]
    /\ UNCHANGED <<variant, env, req, pc, fetches, airtableRecordId, res>>

sendSMS_settles ==
    /\ pc = "awaitAll"
    /\ promises.sms = Pending
    /\ \E reply \in SmsReplies :
          /\ replies' = [replies EXCEPT !.sms = reply]
          /\ promises' = [promises EXCEPT !.sms = sendSMSResult(reply)]
    /\ UNCHANGED <<variant, env, req, pc, fetches, airtableRecordId, res>>

sendEmail_settles ==
    /\ pc = "awaitAll"
    /\ promises.email = Pending
    /\ \E reply \in EmailReplies :
          /\ replies' = [replies EXCEPT !.email = reply]
          /\ promises' = [promises EXCEPT !.email = sendEmailResult(reply)]
    /\ UNCHANGED <<variant, env, req, pc, fetches, airtableRecordId, res>>

----------------------------------------------------------------------------
(* The quote endpoint *)

Init ==
    /\ variant \in Variants
    /\ env = ConfiguredEnv
    /\ req \in [method : Methods, body : Bodies]
    /\ pc = "start"
    /\ promises = [c \in Collaborators |-> Idle]
    /\ fetches = [c \in Collaborators |-> <<>>]
    /\ replies = [c \in Collaborators |-> NoReply]
    /\ airtableRecordId = Null
    /\ res = NewResponse

Next ==
    \/ handler_quote
    \/ handler_quote_resume
    \/ handler_echo
    \/ handler_echo_resume
    \/ handler_sequential
    \/ handler_sequential_step2
    \/ handler_sequential_resume
    \/ createAirtableRecord_settles
    \/ sendSMS_settles
    \/ sendEmail_settles

Spec == Init /\ [][Next]_vars

\* the event loop runs a handler that can run: its entry, and each
\* continuation once the promise it awaits has settled.  Nothing is assumed
\* of the gateways: a collaborator call may stay pending for ever
HandlerFairness ==
    /\ WF_vars(handler_quote)
    /\ WF_vars(handler_quote_resume)
    /\ WF_vars(handler_echo)
    /\ WF_vars(handler_echo_resume)
    /\ WF_vars(handler_sequential)
    /\ WF_vars(handler_sequential_step2)
    /\ WF_vars(handler_sequential_resume)

SpecFair == Spec /\ HandlerFairness

----------------------------------------------------------------------------
(* The diagnostic endpoint, src/api/debug.js:1-19 *)

Digits == <<"0", "1", "2", "3", "4", "5", "6", "7", "8", "9">>

\* ${val.length}: the decimal digits of a length
RECURSIVE decimal(_)
decimal(n) ==
    IF n < 10 THEN <<Digits[n + 1]>>
    ELSE decimal(n \div 10) \o <<Digits[(n % 10) + 1]>>

\* s.slice(from, to) for 0 <= from <= to
slice(s, from, to) ==
    SubSeq(s, from + 1, IF to < Len(s) THEN to ELSE Len(s))

Missing == <<"M", "I", "S", "S", "I", "N", "G">>

\* the text reported for one variable, character by character:
\* val ? `SET (${val.length} chars, starts with "${val.slice(0, 4)}...")` : 'MISSING'
envStatus(val) ==
    IF val.type = "string" /\ Len(val.val) > 0
    THEN <<"S", "E", "T", " ", "(">>
         \o decimal(Len(val.val))
         \o <<" ", "c", "h", "a", "r", "s", ",", " ", "s", "t", "a", "r", "t",
              "s", " ", "w", "i", "t", "h", " ", "\"">>
         \o slice(val.val, 0, PreviewLen)
         \o <<".", ".", ".", "\"", ")">>
    ELSE Missing

\* the whole handler: it is synchronous and answers any method
handler_debug ==
    /\ variant = "debug"
    /\ pc = "start"
    /\ LET status == [v \in EnvNames |-> envStatus(env[v])]
       IN  res' = respond(res, 200, json(status))
    /\ pc' = "done"
    /\ UNCHANGED <<variant, env, req, promises, fetches, replies, airtableRecordId>>

InitDebug ==
    /\ variant = "debug"
    /\ env \in [EnvNames -> EnvValues]
    /\ req = [method |-> "GET", body |-> Undefined]
    /\ pc = "start"
    /\ promises = [c \in Collaborators |-> Idle]
    /\ fetches = [c \in Collaborators |-> <<>>]
    /\ replies = [c \in Collaborators |-> NoReply]
    /\ airtableRecordId = Null
    /\ res = NewResponse

NextDebug == handler_debug

SpecDebug == InitDebug /\ [][NextDebug]_vars

----------------------------------------------------------------------------
(* Vocabulary of the properties *)

RequiredFields == {"name", "phone", "address"}
OptionalFields == {"service", "urgency", "details"}

NonEmpty(v) == v.type = "string" /\ v.val # ""

\* the request is a POST whose body is a JSON object
PostedForm == req.method = "POST" /\ req.body.type = "object"

\* a valid POST: name, phone and address are all non-empty
ValidRequest ==
    PostedForm /\ \A k \in RequiredFields : NonEmpty(req.body.fields[k])

Invoked(c) == Len(fetches[c]) > 0
NoneInvoked == \A c \in Collaborators : fetches[c] = <<>>

Responded == Len(res.sent) > 0

\* the handler has run to its end with exactly this one response
Answered(code, body) ==
    pc = "done" /\ res.sent = <<[status |-> code, body |-> body]>>

----------------------------------------------------------------------------
\* C1: in every variant, a POST whose body lacks a non-empty name, phone or
\* address (any one or any combination; the body a JSON object or an unparsed
\* string) is answered 400 {error: "Name, phone, and address are required."}
\* and no collaborator is invoked; and whenever a collaborator has been
\* invoked, name, phone and address are all non-empty.
C1_MissingRequiredRejected ==
    /\ ( /\ req.method = "POST"
         /\ \/ req.body.type = "string"
            \/ /\ req.body.type = "object"
               /\ \E k \in RequiredFields : ~NonEmpty(req.body.fields[k]) )
       => /\ NoneInvoked
          /\ pc = "done" =>
                Answered(400, [type |-> "json", value |->
                    [error |-> "Name, phone, and address are required."]])
    /\ (\E c \in Collaborators : Invoked(c))
       => /\ req.body.type = "object"
          /\ \A k \in RequiredFields : NonEmpty(req.body.fields[k])

\* a POST with name and phone given and an empty address has been answered 400
C1_Witness ==
    /\ pc = "done"
    /\ PostedForm
    /\ NonEmpty(req.body.fields.name)
    /\ NonEmpty(req.body.fields.phone)
    /\ req.body.fields.address = Str("")
    /\ res.sent[1].status = 400

----------------------------------------------------------------------------
\* the fields of the request sent to the record store
SentFields == fetches.airtable[1].body.records[1].fields

Capital(k) ==
    CASE k = "name" -> "Name" [] k = "phone" -> "Phone"
      [] k = "address" -> "Address" [] k = "service" -> "Service"
      [] k = "urgency" -> "Urgency" [] k = "details" -> "Details"

\* the lines of the SMS text that start with the label of field k
SmsLinesFor(k) ==
    LET msg == fetches.sms[1].body.message
    IN  {i \in 1..Len(msg) : msg[i][1] = Capital(k) \o ": "}

\* the rows of the email body labelled with field k
EmailRowsFor(k) ==
    LET rows == fetches.email[1].body.html.rows
    IN  {i \in 1..Len(rows) : rows[i][1] = Capital(k)}

\* the three outbound requests carry the value submitted for field k
CarriedEverywhere(k) ==
    LET v == req.body.fields[k] IN
    /\ Capital(k) \in DOMAIN SentFields /\ SentFields[Capital(k)] = v
    /\ \E i \in SmsLinesFor(k) :
          fetches.sms[1].body.message[i] = <<Capital(k) \o ": ", v.val>>
    /\ \E i \in EmailRowsFor(k) :
          fetches.email[1].body.html.rows[i] = <<Capital(k), v.val>>

\* C2: for every valid POST and every combination of collaborator outcomes,
\* no collaborator is ever invoked twice, and once the handler has responded
\* each of the three has been invoked exactly once, with every submitted
\* field; in all three variants, the sequential one with a failed
\* record-store call included.
C2_EachCollaboratorOnce ==
    /\ \A c \in Collaborators : Len(fetches[c]) <= 1
    /\ (ValidRequest /\ Responded)
       => /\ \A c \in Collaborators : Len(fetches[c]) = 1
          /\ \A k \in FieldNames :
                NonEmpty(req.body.fields[k]) => CarriedEverywhere(k)

\* the sequential handler has responded after its record-store call failed,
\* every optional field having been submitted
C2_Witness ==
    /\ variant = "sequential"
    /\ ValidRequest
    /\ \A k \in OptionalFields : NonEmpty(req.body.fields[k])
    /\ Responded
    /\ replies.airtable = NetworkError
    /\ \A c \in Collaborators : Len(fetches[c]) = 1

----------------------------------------------------------------------------
\* C3: for every valid POST the response is sent only after all three
\* collaborator operations have settled; a failure of one neither ends the
\* wait nor keeps the others from being attempted.
C3_RespondsAfterAllSettled ==
    (ValidRequest /\ Responded)
        => \A c \in Collaborators : Settled(promises[c])

\* a response sent after the record store and the SMS gateway failed and the
\* email gateway succeeded
C3_Witness ==
    /\ ValidRequest
    /\ Responded
    /\ promises.airtable.status = "rejected"
    /\ promises.sms.status = "rejected"
    /\ promises.email.status = "fulfilled"

----------------------------------------------------------------------------
\* C4: under the silent-success policy (variants "quote" and "sequential"),
\* for every valid POST and every combination of collaborator outcomes, the
\* one response is 200 with body exactly {success: true}.
C4_SilentSuccess ==
    (variant \in {"quote", "sequential"} /\ ValidRequest /\ pc = "done")
        => Answered(200, [type |-> "json", value |-> [success |-> TRUE]])

\* the parallel silent handler has answered after all three collaborators failed
C4_Witness ==
    /\ variant = "quote"
    /\ ValidRequest
    /\ pc = "done"
    /\ \A c \in Collaborators : promises[c].status = "rejected"
    /\ res.sent[1].status = 200

----------------------------------------------------------------------------
\* the gateway's reply means success: an HTTP success status with a readable
\* JSON body and, for the SMS gateway, a true success flag in it
ReplySucceeded(c) ==
    /\ replies[c].net = "ok"
    /\ replies[c].ok
    /\ replies[c].json # [type |-> "invalid"]
    /\ c = "sms" => /\ replies[c].json.type = "object"
                    /\ replies[c].json.success

\* C5: under the diagnostic-echo policy (variant "echo"), for every valid
\* POST and every combination of collaborator outcomes, the one response is
\* 200 with success true and a _debug summary whose entry for each
\* collaborator is "OK" if its operation succeeded and starts with "FAIL"
\* otherwise; an SMS reply of HTTP 200 with a false success flag is a FAIL.
C5_DiagnosticEcho ==
    (variant = "echo" /\ ValidRequest /\ pc = "done")
        => /\ Len(res.sent) = 1
           /\ res.sent[1].status = 200
           /\ res.sent[1].body.type = "json"
           /\ DOMAIN res.sent[1].body.value = {"success", "_debug"}
           /\ res.sent[1].body.value.success = TRUE
           /\ DOMAIN res.sent[1].body.value._debug = Collaborators
           /\ \A c \in Collaborators :
                LET entry == res.sent[1].body.value._debug[c] IN
                IF ReplySucceeded(c) THEN entry = <<"OK">>
                ELSE Len(entry) = 2 /\ entry[1] = "FAIL: "

\* the echo handler has answered after the SMS gateway replied 200 with a
\* false success flag while the other two succeeded
C5_Witness ==
    /\ variant = "echo"
    /\ ValidRequest
    /\ pc = "done"
    /\ replies.sms = [net |-> "ok", ok |-> TRUE,
                      json |-> [type |-> "object", success |-> FALSE]]
    /\ ReplySucceeded("airtable")
    /\ ReplySucceeded("email")
    /\ res.sent[1].body.value._debug.sms[1] = "FAIL: "

----------------------------------------------------------------------------
CorsHeaders ==
    {<<"Access-Control-Allow-Origin", "*">>,
     <<"Access-Control-Allow-Methods", "POST">>,
     <<"Access-Control-Allow-Headers", "Content-Type">>}

\* C6: in every variant of the quote handler, an OPTIONS request is answered
\* 200 with the three CORS headers set and an empty body, every other
\* non-POST request is answered 405, and no collaborator is invoked for
\* either.
C6_PreflightAndMethodGate ==
    /\ (req.method = "OPTIONS")
       => /\ NoneInvoked
          /\ pc = "done" => /\ Answered(200, [type |-> "empty"])
                            /\ CorsHeaders \subseteq res.headers
    /\ (req.method \notin {"POST", "OPTIONS"})
       => /\ NoneInvoked
          /\ pc = "done" => (Len(res.sent) = 1 /\ res.sent[1].status = 405)

----------------------------------------------------------------------------
\* needle occurs in hay as a run of consecutive characters
Contains(hay, needle) ==
    \E i \in 0..(Len(hay) - Len(needle)) :
        SubSeq(hay, i + 1, i + Len(needle)) = needle

\* C7: for every configuration of the seven variables the diagnostic endpoint
\* answers 200 with one entry per variable, which is MISSING exactly when the
\* variable is unset or empty and otherwise a preview that does not contain
\* the variable's full value, whatever the length of the value.
C7_PreviewNeverFullValue ==
    (variant = "debug" /\ pc = "done")
        => /\ Len(res.sent) = 1
           /\ res.sent[1].status = 200
           /\ DOMAIN res.sent[1].body.value = EnvNames
           /\ \A v \in EnvNames :
                LET entry == res.sent[1].body.value[v] IN
                IF env[v].type = "undefined" \/ env[v].val = <<>>
                THEN entry = <<"M", "I", "S", "S", "I", "N", "G">>
                ELSE /\ entry # <<"M", "I", "S", "S", "I", "N", "G">>
                     /\ ~Contains(entry, env[v].val)

----------------------------------------------------------------------------
\* C8: a POST whose body is absent or null (so reading its fields throws) is
\* answered 500 {error: "Something went wrong. Please call us instead."}
\* and no collaborator is invoked; and a 500 is never sent after a
\* collaborator was invoked, so it never results from a collaborator failure.
C8_UnparseableBodyIs500 ==
    /\ (req.method = "POST" /\ req.body.type \in {"undefined", "null"})
       => /\ NoneInvoked
          /\ pc = "done" =>
                Answered(500, [type |-> "json", value |->
                    [error |-> "Something went wrong. Please call us instead."]])
    /\ (\E i \in 1..Len(res.sent) : res.sent[i].status = 500)
       => /\ NoneInvoked
          /\ req.method = "POST"
          /\ req.body.type \in {"undefined", "null"}

\* a POST with a null body has been answered 500
C8_Witness ==
    /\ pc = "done"
    /\ req.method = "POST"
    /\ req.body = [type |-> "null"]
    /\ res.sent[1].status = 500

----------------------------------------------------------------------------
\* C9 as claimed: for every valid request, each of service, urgency and
\* details that is absent or empty has no line in the SMS text and no entry in
\* the record-store field set, and each that is present appears in both.
C9_OptionalOmittedEverywhere ==
    (ValidRequest /\ Invoked("airtable") /\ Invoked("sms"))
        => \A k \in OptionalFields :
             IF NonEmpty(req.body.fields[k])
             THEN /\ SmsLinesFor(k) # {}
                  /\ Capital(k) \in DOMAIN SentFields
             ELSE /\ SmsLinesFor(k) = {}
                  /\ Capital(k) \notin DOMAIN SentFields

\* C9 amended: for every valid request, each of service, urgency and details
\* that is absent or empty has no line in the SMS text; an absent or empty
\* service or urgency has no entry in the record-store field set, while
\* Details is always sent, as the empty string when absent or empty; each
\* field that is present appears in both with the submitted value.
C9_OptionalOmittedExceptDetails ==
    (ValidRequest /\ Invoked("airtable") /\ Invoked("sms"))
        => \A k \in OptionalFields :
             IF NonEmpty(req.body.fields[k])
             THEN /\ \E i \in SmsLinesFor(k) :
                        fetches.sms[1].body.message[i]
                            = <<Capital(k) \o ": ", req.body.fields[k].val>>
                  /\ Capital(k) \in DOMAIN SentFields
                  /\ SentFields[Capital(k)] = req.body.fields[k]
             ELSE /\ SmsLinesFor(k) = {}
                  /\ IF k = "details"
                     THEN /\ "Details" \in DOMAIN SentFields
                          /\ SentFields.Details = [type |-> "string", val |-> ""]
                     ELSE Capital(k) \notin DOMAIN SentFields

\* the parallel silent handler has issued its calls for a submission without
\* a service, with an empty urgency and with details
C9_Witness ==
    /\ variant = "quote"
    /\ ValidRequest
    /\ Invoked("airtable") /\ Invoked("sms")
    /\ req.body.fields.service = [type |-> "undefined"]
    /\ req.body.fields.urgency = [type |-> "string", val |-> ""]
    /\ NonEmpty(req.body.fields.details)

----------------------------------------------------------------------------
\* the record store answered with success and the first created record
\* carries an identifier
ReturnedRecordId ==
    /\ replies.airtable.net = "ok"
    /\ replies.airtable.ok
    /\ replies.airtable.json.type = "object"
    /\ replies.airtable.json.records.type = "array"
    /\ Len(replies.airtable.json.records.items) > 0
    /\ NonEmpty(replies.airtable.json.records.items[1].id)

\* C10: in the sequential variant, for every valid POST, the record-store
\* call has been issued and has settled before the SMS or the email call
\* begins; both are then issued whether or not the record-store call
\* succeeded; and the link in the email ends in the created record's
\* identifier exactly when the record-store call succeeded and returned one,
\* and is the table-level link otherwise.
C10_RecordStoreFirst ==
    (variant = "sequential" /\ ValidRequest)
        => /\ (Invoked("sms") \/ Invoked("email"))
                => (Len(fetches.airtable) = 1 /\ Settled(promises.airtable))
           /\ (Settled(promises.airtable) /\ pc # "awaitAirtable")
                => (Len(fetches.sms) = 1 /\ Len(fetches.email) = 1)
           /\ Invoked("email")
                => LET link == fetches.email[1].body.html.link
                       table == <<"https://airtable.com/",
                                  env["AIRTABLE_BASE_ID"], "/",
                                  env["AIRTABLE_TABLE_ID"]>>
                   IN  IF ReturnedRecordId
                       THEN link = table \o <<"/",
                               replies.airtable.json.records.items[1].id.val>>
                       ELSE link = table

\* the sequential handler has answered after the record store returned a
\* record identifier, which the email link carries
C10_Witness ==
    /\ variant = "sequential"
    /\ ValidRequest
    /\ pc = "done"
    /\ ReturnedRecordId
    /\ Len(fetches.email[1].body.html.link) = 6

----------------------------------------------------------------------------
ResponseStatuses == {200, 400, 405, 500}

\* no collaborator call stays pending for ever
EveryCallSettles ==
    \A c \in Collaborators : []<>(promises[c].status # "pending")

\* at most one response, of a listed status, sent only as the handler ends
\* and never while a collaborator call is pending
OneResponseAtTheEnd ==
    /\ Len(res.sent) <= 1
    /\ \A i \in 1..Len(res.sent) : res.sent[i].status \in ResponseStatuses
    /\ Responded <=> pc = "done"
    /\ (\E c \in Collaborators : promises[c].status = "pending") => ~Responded

\* C11: every request to the quote endpoint, in every variant and on every
\* path, receives exactly one response, with status 200, 400, 405 or 500:
\* never a second one, never one while a collaborator call is pending, and
\* one eventually, provided each collaborator call that was issued
\* eventually settles.
C11_ExactlyOneResponse ==
    /\ []OneResponseAtTheEnd
    /\ EveryCallSettles => <>(pc = "done" /\ Len(res.sent) = 1)

\* the echo handler has answered a valid request once, all three calls settled
C11_Witness ==
    /\ variant = "echo"
    /\ ValidRequest
    /\ pc = "done"
    /\ Len(res.sent) = 1
    /\ \A c \in Collaborators : Settled(promises[c])

====
